---- MODULE Spec2Model ----
(***************************************************************************)
(* Foucault pendulum simulator (src/focault_pendulum.py): the physics      *)
(* transform of PhysicsEngine, the trail of Visualizer and the state       *)
(* controller / main loop of FoucaultPendulumSimulator.                    *)
(*                                                                         *)
(* Arithmetic.  The program computes in binary64; TLA+ has integers only.  *)
(* Every quantity is held in fixed point, and every product is followed by *)
(* a division that truncates toward zero (Quot), as a float product is     *)
(* followed by a rounding:                                                 *)
(*   time, dt           milliseconds                                       *)
(*   latitude           1/LatUnit degree (48.8566 and k*9/11 are exact)    *)
(*   slider positions   1/SliderUnit pixel                                 *)
(*   speed_factor       plain number                                       *)
(*   angles to sin/cos  1/TrigScale radian                                 *)
(*   sin, cos values    1/TrigScale                                        *)
(*   omega_e, omega_p   1e-9 rad/s                                         *)
(*   rotation_angle     1e-7 rad                                           *)
(*   positions (x, y)   1/PosUnit pixel                                    *)
(***************************************************************************)
EXTENDS Integers, Sequences, FiniteSets, TLC

\* ------------------------------------------------------------------ bounds
\* Update is disabled once time has reached MaxTicks * dt.
MaxTicks == 2
\* The same cap for the specification that fills the trail (SpecTrail).
MaxTrailTicks == 402
\* How far outside a slider (in pixels) a dragged mouse is sampled.
MouseOver == 500

\* ------------------------------------------------------- fixed-point scales
LatUnit == 11 * 10000
SliderUnit == 9 * 10000
TrigScale == 10 * 1000
PosUnit == 10 * 10

Quot(a, b) == IF a >= 0 THEN a \div b ELSE -((-a) \div b)
Abs(a) == IF a >= 0 THEN a ELSE -a
Max2(a, b) == IF a >= b THEN a ELSE b
Min2(a, b) == IF a <= b THEN a ELSE b

\* ------------------------------------------------------------ numpy stand-ins
HalfPi == 3927 * 4
Pi == 2 * HalfPi
TwoPi == 4 * HalfPi

\* sin on [0, pi/2]: Taylor polynomial to x^7.
SinQ(x) ==
    LET x2 == (x * x) \div TrigScale
        x4 == (x2 * x2) \div TrigScale
        x6 == (x4 * x2) \div TrigScale
    IN  x - ((x * x2) \div (6 * TrigScale))
          + ((x * x4) \div (120 * TrigScale))
          - (((x6 \div 5040) * x) \div TrigScale)

\* cos on [0, pi/2]: Taylor polynomial to x^8.
CosQ(x) ==
    LET x2 == (x * x) \div TrigScale
        x4 == (x2 * x2) \div TrigScale
        x6 == (x4 * x2) \div TrigScale
        x8 == ((x6 \div 10) * x2) \div (TrigScale \div 10)
    IN  TrigScale - (x2 \div 2) + (x4 \div 24) - (x6 \div 720) + (x8 \div 40320)

\* np.sin: odd, period 2 pi, folded onto [0, pi/2].
np_sin(a) ==
    LET r == Abs(a) % TwoPi
        s == IF r <= HalfPi THEN SinQ(r)
             ELSE IF r <= Pi THEN SinQ(Pi - r)
             ELSE IF r <= Pi + HalfPi THEN -SinQ(r - Pi)
             ELSE -SinQ(TwoPi - r)
    IN  IF a >= 0 THEN s ELSE -s

\* np.cos: even, period 2 pi, folded onto [0, pi/2].
np_cos(a) ==
    LET r == Abs(a) % TwoPi
    IN  IF r <= HalfPi THEN CosQ(r)
        ELSE IF r <= Pi THEN -CosQ(Pi - r)
        ELSE IF r <= Pi + HalfPi THEN -CosQ(r - Pi)
        ELSE CosQ(TwoPi - r)

\* np.radians: degrees (1/LatUnit) to radians (1/TrigScale); 180/pi * 11 = 630.25.
np_radians(lat) == Quot(lat * 100, 63025)

\* np.sqrt on the integers: the floor of the square root.
np_sqrt(v) == CHOOSE r \in 0..(2 * TrigScale) : r * r <= v /\ (r + 1) * (r + 1) > v

\* -------------------------------------------------------------- PhysicsEngine
\* g in cm/s^2, L in m, omega_e in 1e-9 rad/s, omega_0 in 1/TrigScale rad/s.
g == 981
L == 10
omega_e == 72921
omega_0 == np_sqrt((g * (TrigScale \div 100) * TrigScale) \div L)

\* The angle (1e-7 rad) as a trig argument (1/TrigScale rad).
TrigArg(theta) == Quot(theta, 1000)

\* calculate_inertial_position with the fixed-mode branch lost: the bob swings.
calculate_inertial_position_swing(time, amplitude, fixed_mode) ==
    LET ph == (omega_0 * time) \div 1000
    IN  << Quot(amplitude * np_cos(ph), TrigScale \div PosUnit),
           Quot(amplitude * 3 * np_sin(ph), 10 * (TrigScale \div PosUnit)) >>

calculate_inertial_position(time, amplitude, fixed_mode) ==
    IF fixed_mode
    THEN <<amplitude * PosUnit, 0>>
    ELSE LET ph == (omega_0 * time) \div 1000
         IN  << Quot(amplitude * np_cos(ph), TrigScale \div PosUnit),
                Quot(amplitude * 3 * np_sin(ph), 10 * (TrigScale \div PosUnit)) >>

\* The precession rate taken from the cosine of the latitude.
PrecessionAngleCos(time, latitude, speed_factor) ==
    LET omega_p == Quot(omega_e * np_cos(np_radians(latitude)), TrigScale)
    IN  Quot(omega_p * time, 100000) * speed_factor

\* theta = omega_p * time * speed_factor, with omega_p = omega_e * sin(radians(latitude)).
PrecessionAngle(time, latitude, speed_factor) ==
    LET omega_p == Quot(omega_e * np_sin(np_radians(latitude)), TrigScale)
    IN  Quot(omega_p * time, 100000) * speed_factor

rotate_to_earth_frame(x, y, time, latitude, speed_factor) ==
    LET theta == PrecessionAngle(time, latitude, speed_factor)
        cos_theta == np_cos(TrigArg(theta))
        sin_theta == np_sin(TrigArg(theta))
        x_earth == Quot(x * cos_theta - y * sin_theta, TrigScale)
        y_earth == Quot(x * sin_theta + y * cos_theta, TrigScale)
    IN  <<x_earth, y_earth, theta>>

\* get_precession_period: 24 / |sin(latitude)| in 1/100 hour, "inf" when
\* |sin(latitude)| < 0.01.
get_precession_period(latitude) ==
    LET sin_lat == np_sin(np_radians(latitude))
    IN  IF Abs(sin_lat) < TrigScale \div 100
        THEN "inf"
        ELSE Quot(24 * 100 * TrigScale, Abs(sin_lat))

\* f"{p:.1f} hrs": the period rounded to a tenth of an hour, with its unit.
FormatHrs(p) == <<(p + 5) \div 10, " hrs">>

\* get_location_info with the equator test written <= for <.
get_location_info_le(latitude, fixed_mode) ==
    IF fixed_mode
    THEN [name |-> "FIXED PENDULUM", color |-> <<168, 85, 247>>,
          description |-> "Earth rotates beneath pendulum",
          explanation |-> "Pendulum stays fixed while Earth rotates",
          period |-> "N/A"]
    ELSE IF Abs(latitude) <= 5 * LatUnit
    THEN [name |-> "EQUATOR", color |-> <<239, 68, 68>>,
          description |-> "No visible rotation",
          explanation |-> "Pendulum plane stays aligned with Earth",
          period |-> "Infinite"]
    ELSE IF Abs(latitude) > 85 * LatUnit
    THEN [name |-> "POLE", color |-> <<34, 197, 94>>,
          description |-> "Full rotation visible",
          explanation |-> "Complete 360 rotation in 24 hours",
          period |-> "24.0 hrs"]
    ELSE [name |-> "MID-LATITUDE", color |-> <<234, 179, 8>>,
          description |-> "Partial rotation visible",
          explanation |-> "Rotation rate depends on latitude",
          period |-> FormatHrs(get_precession_period(latitude))]

get_location_info(latitude, fixed_mode) ==
    IF fixed_mode
    THEN [name |-> "FIXED PENDULUM", color |-> <<168, 85, 247>>,
          description |-> "Earth rotates beneath pendulum",
          explanation |-> "Pendulum stays fixed while Earth rotates",
          period |-> "N/A"]
    ELSE IF Abs(latitude) < 5 * LatUnit
    THEN [name |-> "EQUATOR", color |-> <<239, 68, 68>>,
          description |-> "No visible rotation",
          explanation |-> "Pendulum plane stays aligned with Earth",
          period |-> "Infinite"]
    ELSE IF Abs(latitude) > 85 * LatUnit
    THEN [name |-> "POLE", color |-> <<34, 197, 94>>,
          description |-> "Full rotation visible",
          explanation |-> "Complete 360 rotation in 24 hours",
          period |-> "24.0 hrs"]
    ELSE [name |-> "MID-LATITUDE", color |-> <<234, 179, 8>>,
          description |-> "Partial rotation visible",
          explanation |-> "Rotation rate depends on latitude",
          period |-> FormatHrs(get_precession_period(latitude))]

\* ---------------------------------------------------------------- Visualizer
width == 1100
height == 750
center_x == (width \div 2) * PosUnit
center_y == ((height \div 2) + 30) * PosUnit
max_trail_points == 400

\* --------------------------------------------------------------- ControlPanel
Rect(x, y, w, h) == [x |-> x, y |-> y, w |-> w, h |-> h]
collidepoint(r, pos) ==
    /\ r.x <= pos[1] /\ pos[1] < r.x + r.w
    /\ r.y <= pos[2] /\ pos[2] < r.y + r.h

panel_rect == Rect(width - 270, 90, 260, 370)
ui_x == panel_rect.x + 20
ui_y == panel_rect.y + 55
lat_slider_rect == Rect(ui_x, ui_y + 22, 220, 6)
speed_slider_rect == Rect(ui_x, ui_y + 65 + 22, 220, 6)
equator_btn == Rect(ui_x, ui_y + 135, 70, 32)
mid_btn == Rect(ui_x + 70 + 5, ui_y + 135, 70, 32)
pole_btn == Rect(ui_x + 2 * (70 + 5), ui_y + 135, 70, 32)
pause_btn == Rect(ui_x, ui_y + 185, 108, 32)
reset_btn == Rect(ui_x + 117, ui_y + 185, 103, 32)
info_btn == Rect(ui_x, ui_y + 235, 220, 32)
fixed_btn == Rect(ui_x, ui_y + 275, 220, 32)

\* ------------------------------------------------- FoucaultPendulumSimulator
amplitude == 130
dt == 16

\* A quotient num / den in [0, 1] as the division delivers it: rounded, here
\* to 1/TrigScale by long division in two steps of two digits, where the code
\* rounds to binary64.  Exact whenever the quotient has four decimals.
DivQ(num, den) ==
    LET q1 == (num * 100) \div den
        r1 == (num * 100) % den
    IN  q1 * 100 + (r1 * 100) \div den

\* (value - min) / (max - min) * 220, in 1/SliderUnit pixel: the rounded
\* quotient times 220.
map_to_slider(value, min_val, max_val) ==
    DivQ(value - min_val, max_val - min_val) * ((220 * SliderUnit) \div TrigScale)

\* min + (pos / 220) * (max - min), pos in 1/SliderUnit pixel.
map_from_slider(pos, min_val, max_val) ==
    min_val + Quot(pos, (220 * SliderUnit) \div (max_val - min_val))

\* The slider position taken from the mouse without the clamp.
SliderNoClamp(x) == x * SliderUnit

\* max(0, min(220, x)) of _handle_mouse_motion, x in whole pixels.
SliderClamp(x) == Max2(0, Min2(220, x)) * SliderUnit

\* pygame key codes and event positions the model draws its inputs from.
Keys == {"K_ESCAPE", "K_SPACE", "K_r", "K_i", "K_f", "K_1", "K_2", "K_3", "K_a"}
ClickPoints ==
    { <<ui_x + 40, ui_y + 24>>, <<ui_x + 40, ui_y + 89>>,
      <<ui_x + 10, ui_y + 140>>, <<ui_x + 80, ui_y + 140>>, <<ui_x + 155, ui_y + 140>>,
      <<ui_x + 10, ui_y + 190>>, <<ui_x + 120, ui_y + 190>>,
      <<ui_x + 10, ui_y + 240>>, <<ui_x + 10, ui_y + 280>>,
      <<100, 100>> }
MotionPoints ==
    { <<ui_x - MouseOver, 300>>, <<ui_x + 110, 300>>, <<ui_x + 220 + MouseOver, 300>> }

None == <<>>

VARIABLES
    running, paused, fixed_mode,          \* FoucaultPendulumSimulator flags
    latitude, time, speed_factor, rotation_angle,
    lat_slider_pos, speed_slider_pos,
    dragging_lat, dragging_speed,         \* ControlPanel
    visible,                              \* InfoPanel
    trail,                                \* Visualizer
    pc,                                   \* position in run()
    xy,                                   \* the (x, y) update() returned to run()
    loc_info,                             \* the loc_info of the InfoPanel.draw just run
    last                                  \* history: the step taken last and the state it found

vars == << running, paused, fixed_mode, latitude, time, speed_factor, rotation_angle,
           lat_slider_pos, speed_slider_pos, dragging_lat, dragging_speed, visible,
           trail, pc, xy, loc_info, last >>

Note(cmd, arg) ==
    last' = [cmd |-> cmd, arg |-> arg, dirty |-> (time > 0 \/ trail # <<>>)]

\* The state after __init__, for a start latitude and a start fixed_mode.
InitAt(lat, fixed) ==
    /\ running = TRUE
    /\ paused = FALSE
    /\ fixed_mode = fixed
    /\ latitude = lat
    /\ time = 0
    /\ speed_factor = 3600
    /\ rotation_angle = 0
    /\ lat_slider_pos = map_to_slider(lat, -90 * LatUnit, 90 * LatUnit)
    /\ speed_slider_pos = map_to_slider(3600, 100, 10000)
    /\ dragging_lat = FALSE
    /\ dragging_speed = FALSE
    /\ visible = TRUE
    /\ trail = <<>>
    /\ pc = "handle_events"
    /\ xy = None
    /\ loc_info = None
    /\ last = [cmd |-> "init", arg |-> 0, dirty |-> FALSE]

\* __init__: latitude 48.8566, fixed_mode False.
Init == InitAt(5374226, FALSE)

\* reset(): time, rotation_angle, visualizer.clear_trail().
reset ==
    /\ time' = 0
    /\ rotation_angle' = 0
    /\ trail' = <<>>

\* _set_latitude without the slider update.
set_latitude_no_slider(lat) ==
    /\ latitude' = lat
    /\ UNCHANGED lat_slider_pos
    /\ reset

\* _set_latitude(latitude)
set_latitude(lat) ==
    /\ latitude' = lat
    /\ lat_slider_pos' = map_to_slider(lat, -90 * LatUnit, 90 * LatUnit)
    /\ reset

\* A pause command that sets the flag instead of flipping it.
toggle_pause_set == paused' = TRUE

\* self.paused = not self.paused
toggle_pause == paused' = ~paused

\* self.fixed_mode = not self.fixed_mode; self.reset()
toggle_fixed ==
    /\ fixed_mode' = ~fixed_mode
    /\ reset

\* InfoPanel.toggle()
toggle == visible' = ~visible

\* drag_lat without the call of reset().
drag_lat_no_reset(x) ==
    /\ lat_slider_pos' = SliderClamp(x)
    /\ latitude' = map_from_slider(lat_slider_pos', -90 * LatUnit, 90 * LatUnit)
    /\ UNCHANGED << time, rotation_angle, trail >>

\* _handle_mouse_motion, the dragging_lat branch; x = pos[0] - lat_slider_rect.x.
drag_lat(x) ==
    /\ lat_slider_pos' = SliderClamp(x)
    /\ latitude' = map_from_slider(lat_slider_pos', -90 * LatUnit, 90 * LatUnit)
    /\ reset

\* drag_speed with a call of reset(), as the latitude branch has.
drag_speed_reset(x) ==
    /\ speed_slider_pos' = SliderClamp(x)
    /\ speed_factor' = map_from_slider(speed_slider_pos', 100, 10000)
    /\ reset

\* _handle_mouse_motion, the dragging_speed branch; x = pos[0] - speed_slider_rect.x.
drag_speed(x) ==
    /\ speed_slider_pos' = SliderClamp(x)
    /\ speed_factor' = map_from_slider(speed_slider_pos', 100, 10000)
    /\ UNCHANGED << time, rotation_angle, trail >>

\* The branch _handle_mouse_down takes for a click at pos.
MouseTarget(pos) ==
    IF collidepoint(lat_slider_rect, pos) THEN "lat_slider"
    ELSE IF collidepoint(speed_slider_rect, pos) THEN "speed_slider"
    ELSE IF collidepoint(equator_btn, pos) THEN "equator_btn"
    ELSE IF collidepoint(mid_btn, pos) THEN "mid_btn"
    ELSE IF collidepoint(pole_btn, pos) THEN "pole_btn"
    ELSE IF collidepoint(pause_btn, pos) THEN "pause_btn"
    ELSE IF collidepoint(reset_btn, pos) THEN "reset_btn"
    ELSE IF collidepoint(info_btn, pos) THEN "info_btn"
    ELSE IF collidepoint(fixed_btn, pos) THEN "fixed_btn"
    ELSE "nothing"

\* _handle_mouse_down(pos)
handle_mouse_down(pos) ==
    LET hit == MouseTarget(pos) IN
    /\ Note(hit, 0)
    /\ CASE hit = "lat_slider" ->
              /\ dragging_lat' = TRUE
              /\ UNCHANGED << running, paused, fixed_mode, latitude, time, speed_factor,
                              rotation_angle, lat_slider_pos, speed_slider_pos,
                              dragging_speed, visible, trail >>
         [] hit = "speed_slider" ->
              /\ dragging_speed' = TRUE
              /\ UNCHANGED << running, paused, fixed_mode, latitude, time, speed_factor,
                              rotation_angle, lat_slider_pos, speed_slider_pos,
                              dragging_lat, visible, trail >>
         [] hit = "equator_btn" ->
              /\ set_latitude(0)
              /\ UNCHANGED << running, paused, fixed_mode, speed_factor, speed_slider_pos,
                              dragging_lat, dragging_speed, visible >>
         [] hit = "mid_btn" ->
              /\ set_latitude(45 * LatUnit)
              /\ UNCHANGED << running, paused, fixed_mode, speed_factor, speed_slider_pos,
                              dragging_lat, dragging_speed, visible >>
         [] hit = "pole_btn" ->
              /\ set_latitude(90 * LatUnit)
              /\ UNCHANGED << running, paused, fixed_mode, speed_factor, speed_slider_pos,
                              dragging_lat, dragging_speed, visible >>
         [] hit = "pause_btn" ->
              /\ toggle_pause
              /\ UNCHANGED << running, fixed_mode, latitude, time, speed_factor,
                              rotation_angle, lat_slider_pos, speed_slider_pos,
                              dragging_lat, dragging_speed, visible, trail >>
         [] hit = "reset_btn" ->
              /\ reset
              /\ UNCHANGED << running, paused, fixed_mode, latitude, speed_factor,
                              lat_slider_pos, speed_slider_pos, dragging_lat,
                              dragging_speed, visible >>
         [] hit = "info_btn" ->
              /\ toggle
              /\ UNCHANGED << running, paused, fixed_mode, latitude, time, speed_factor,
                              rotation_angle, lat_slider_pos, speed_slider_pos,
                              dragging_lat, dragging_speed, trail >>
         [] hit = "fixed_btn" ->
              /\ toggle_fixed
              /\ UNCHANGED << running, paused, latitude, speed_factor, lat_slider_pos,
                              speed_slider_pos, dragging_lat, dragging_speed, visible >>
         [] OTHER ->
              UNCHANGED << running, paused, fixed_mode, latitude, time, speed_factor,
                           rotation_angle, lat_slider_pos, speed_slider_pos,
                           dragging_lat, dragging_speed, visible, trail >>

\* _handle_mouse_motion(pos)
handle_mouse_motion(pos) ==
    IF dragging_lat
    THEN LET x == pos[1] - lat_slider_rect.x IN
         /\ Note("lat_drag", x)
         /\ drag_lat(x)
         /\ UNCHANGED << running, paused, fixed_mode, speed_factor, speed_slider_pos,
                         dragging_lat, dragging_speed, visible >>
    ELSE IF dragging_speed
    THEN LET x == pos[1] - speed_slider_rect.x IN
         /\ Note("speed_drag", x)
         /\ drag_speed(x)
         /\ UNCHANGED << running, paused, fixed_mode, latitude, lat_slider_pos,
                         dragging_lat, dragging_speed, visible >>
    ELSE /\ Note("motion", 0)
         /\ UNCHANGED << running, paused, fixed_mode, latitude, time, speed_factor,
                         rotation_angle, lat_slider_pos, speed_slider_pos,
                         dragging_lat, dragging_speed, visible, trail >>

\* _handle_keydown(key)
handle_keydown(key) ==
    /\ Note(key, 0)
    /\ CASE key = "K_ESCAPE" ->
              /\ running' = FALSE
              /\ UNCHANGED << paused, fixed_mode, latitude, time, speed_factor,
                              rotation_angle, lat_slider_pos, speed_slider_pos,
                              dragging_lat, dragging_speed, visible, trail >>
         [] key = "K_SPACE" ->
              /\ toggle_pause
              /\ UNCHANGED << running, fixed_mode, latitude, time, speed_factor,
                              rotation_angle, lat_slider_pos, speed_slider_pos,
                              dragging_lat, dragging_speed, visible, trail >>
         [] key = "K_r" ->
              /\ reset
              /\ UNCHANGED << running, paused, fixed_mode, latitude, speed_factor,
                              lat_slider_pos, speed_slider_pos, dragging_lat,
                              dragging_speed, visible >>
         [] key = "K_i" ->
              /\ toggle
              /\ UNCHANGED << running, paused, fixed_mode, latitude, time, speed_factor,
                              rotation_angle, lat_slider_pos, speed_slider_pos,
                              dragging_lat, dragging_speed, trail >>
         [] key = "K_f" ->
              /\ toggle_fixed
              /\ UNCHANGED << running, paused, latitude, speed_factor, lat_slider_pos,
                              speed_slider_pos, dragging_lat, dragging_speed, visible >>
         [] key = "K_1" ->
              /\ set_latitude(0)
              /\ UNCHANGED << running, paused, fixed_mode, speed_factor, speed_slider_pos,
                              dragging_lat, dragging_speed, visible >>
         [] key = "K_2" ->
              /\ set_latitude(45 * LatUnit)
              /\ UNCHANGED << running, paused, fixed_mode, speed_factor, speed_slider_pos,
                              dragging_lat, dragging_speed, visible >>
         [] key = "K_3" ->
              /\ set_latitude(90 * LatUnit)
              /\ UNCHANGED << running, paused, fixed_mode, speed_factor, speed_slider_pos,
                              dragging_lat, dragging_speed, visible >>
         [] OTHER ->
              UNCHANGED << running, paused, fixed_mode, latitude, time, speed_factor,
                           rotation_angle, lat_slider_pos, speed_slider_pos,
                           dragging_lat, dragging_speed, visible, trail >>

\* ---- handle_events(): one action per event type of the for loop
EventQuit ==
    /\ pc = "handle_events"
    /\ Note("QUIT", 0)
    /\ loc_info' = None
    /\ running' = FALSE
    /\ UNCHANGED << paused, fixed_mode, latitude, time, speed_factor, rotation_angle,
                    lat_slider_pos, speed_slider_pos, dragging_lat, dragging_speed,
                    visible, trail, pc, xy >>

EventMouseDown(pos) ==
    /\ pc = "handle_events"
    /\ handle_mouse_down(pos)
    /\ loc_info' = None
    /\ UNCHANGED << pc, xy >>

EventMouseUp ==
    /\ pc = "handle_events"
    /\ Note("MOUSEBUTTONUP", 0)
    /\ loc_info' = None
    /\ dragging_lat' = FALSE
    /\ dragging_speed' = FALSE
    /\ UNCHANGED << running, paused, fixed_mode, latitude, time, speed_factor,
                    rotation_angle, lat_slider_pos, speed_slider_pos, visible, trail,
                    pc, xy >>

EventMouseMotion(pos) ==
    /\ pc = "handle_events"
    /\ handle_mouse_motion(pos)
    /\ loc_info' = None
    /\ UNCHANGED << pc, xy >>

EventKeyDown(key) ==
    /\ pc = "handle_events"
    /\ handle_keydown(key)
    /\ loc_info' = None
    /\ UNCHANGED << pc, xy >>

\* The event queue is exhausted: handle_events() returns to run().
EndEvents ==
    /\ pc = "handle_events"
    /\ pc' = "update"
    /\ Note("end_events", 0)
    /\ loc_info' = None
    /\ UNCHANGED << running, paused, fixed_mode, latitude, time, speed_factor,
                    rotation_angle, lat_slider_pos, speed_slider_pos, dragging_lat,
                    dragging_speed, visible, trail, xy >>

\* The clock left where it is.
advance_stuck(t) == t

\* self.time += self.dt
advance(t) == t + dt

\* A tick that ignores the pause flag.
ticking_always == TRUE

\* if not self.paused:
ticking == ~paused

\* update(); the model stops the clock at maxTicks * dt, but lets the last
\* iteration through once an exit command has cleared running.
update(maxTicks) ==
    /\ pc = "update"
    /\ pc' = "draw"
    /\ Note("update", 0)
    /\ loc_info' = None
    /\ IF ticking
       THEN /\ running => time < maxTicks * dt
            /\ time' = advance(time)
            /\ LET inertial == calculate_inertial_position(time', amplitude, fixed_mode)
                   earth == rotate_to_earth_frame(inertial[1], inertial[2], time',
                                                  latitude, speed_factor)
               IN  /\ rotation_angle' = earth[3]
                   /\ xy' = <<earth[1], earth[2]>>
       ELSE /\ xy' = None
            /\ UNCHANGED << time, rotation_angle >>
    /\ UNCHANGED << running, paused, fixed_mode, latitude, speed_factor, lat_slider_pos,
                    speed_slider_pos, dragging_lat, dragging_speed, visible, trail >>

\* draw_pendulum with trail.pop() for trail.pop(0): the newest point is dropped.
draw_pendulum_pop_newest(tr, x, y, fixed) ==
    LET bob == <<center_x + x, center_y + y>>
        appended == Append(tr, bob)
    IN  IF ~fixed
        THEN IF Len(appended) > max_trail_points
             THEN SubSeq(appended, 1, Len(appended) - 1)
             ELSE appended
        ELSE tr

\* draw_pendulum without the test of fixed_mode.
draw_pendulum_any_mode(tr, x, y, fixed) ==
    LET bob == <<center_x + x, center_y + y>>
        appended == Append(tr, bob)
    IN  IF Len(appended) > max_trail_points THEN Tail(appended) ELSE appended

\* Visualizer.draw_pendulum(x, y, fixed_mode): the trail after the call.
draw_pendulum(tr, x, y, fixed) ==
    LET bob == <<center_x + x, center_y + y>>
        appended == Append(tr, bob)
    IN  IF ~fixed
        THEN IF Len(appended) > max_trail_points THEN Tail(appended) ELSE appended
        ELSE tr

\* A loop that tests nothing: while True.
while_true == "handle_events"

\* while self.running: the next iteration, or pygame.quit() and sys.exit().
while_running == IF running THEN "handle_events" ELSE "exited"

\* InfoPanel.draw(latitude, rotation_angle, physics, fixed_mode): its loc_info,
\* None when the panel is hidden and draw returns at once.
info_panel_draw(lat, fixed) ==
    IF ~visible THEN None ELSE get_location_info(lat, fixed)

\* draw(x, y), clock.tick(fps) and the while test of run().
draw ==
    /\ pc = "draw"
    /\ Note("draw", 0)
    /\ trail' = IF xy # None THEN draw_pendulum(trail, xy[1], xy[2], fixed_mode) ELSE trail
    /\ loc_info' = info_panel_draw(latitude, fixed_mode)
    /\ xy' = None
    /\ pc' = while_running
    /\ UNCHANGED << running, paused, fixed_mode, latitude, time, speed_factor,
                    rotation_angle, lat_slider_pos, speed_slider_pos, dragging_lat,
                    dragging_speed, visible >>

Next ==
    \/ EventQuit
    \/ \E pos \in ClickPoints : EventMouseDown(pos)
    \/ EventMouseUp
    \/ \E pos \in MotionPoints : EventMouseMotion(pos)
    \/ \E key \in Keys : EventKeyDown(key)
    \/ EndEvents
    \/ update(MaxTicks)
    \/ draw

Spec == Init /\ [][Next]_vars

\* The same program driven long enough to fill the trail: the clock runs to
\* MaxTrailTicks * dt, and the events are the keys that pause, reset, toggle the
\* fixed mode and pick a preset latitude.
TrailKeys == {"K_SPACE", "K_r", "K_f", "K_1", "K_2", "K_3"}

NextTrail ==
    \/ \E key \in TrailKeys : EventKeyDown(key)
    \/ EndEvents
    \/ update(MaxTrailTicks)
    \/ draw

SpecTrail == Init /\ [][NextTrail]_vars

\* The main loop with its exit commands, under the fairness of its scheduling:
\* pygame.event.get() returns a finite list, so handle_events() returns, and
\* update() and draw() are straight-line code.
ExitKeys == {"K_ESCAPE", "K_SPACE", "K_r", "K_f"}

NextExit ==
    \/ EventQuit
    \/ \E key \in ExitKeys : EventKeyDown(key)
    \/ EndEvents
    \/ update(MaxTicks)
    \/ draw

SpecExit ==
    /\ Init
    /\ [][NextExit]_vars
    /\ WF_vars(EndEvents)
    /\ WF_vars(update(MaxTicks))
    /\ WF_vars(draw)

\* get_location_info on inputs drawn from bounded sets: the program started at
\* every whole degree of latitude and one unit either side of each threshold,
\* in either mode, and driven by the keys that toggle the panel and the mode.
LatInputs ==
    { d * LatUnit : d \in -90..90 }
        \cup { s * (b * LatUnit + e) : s \in {-1, 1}, b \in {5, 85}, e \in {-1, 1} }

InitInfo == \E lat \in LatInputs : \E fixed \in BOOLEAN : InitAt(lat, fixed)

InfoKeys == {"K_i", "K_f"}

NextInfo ==
    \/ \E key \in InfoKeys : EventKeyDown(key)
    \/ EndEvents
    \/ update(MaxTicks)
    \/ draw

SpecInfo == InitInfo /\ [][NextInfo]_vars

\* ------------------------------------------------------------------- claims
\* The value of last.cmd after each command that sets the latitude or flips
\* fixed_mode, after each that toggles pause, and after each that calls reset().
LatitudeCmds == {"K_1", "K_2", "K_3", "equator_btn", "mid_btn", "pole_btn", "lat_drag"}
FixedCmds == {"K_f", "fixed_btn"}
PauseCmds == {"K_SPACE", "pause_btn"}
ResetCmds == LatitudeCmds \cup FixedCmds \cup {"K_r", "reset_btn"}

\* C1: every command that changes the latitude (a preset key or button, a drag
\* of the latitude slider) or flips fixed_mode (key F, the fixed-mode button)
\* leaves time = 0 and the trail empty in the state right after it, whether
\* the simulator is paused or running.
C1_ReconfigurationResets ==
    [][ (\/ last'.cmd \in LatitudeCmds \cup FixedCmds
         \/ latitude' # latitude
         \/ fixed_mode' # fixed_mode)
        => (time' = 0 /\ trail' = <<>>) ]_vars

\* A latitude drag has just acted on a running simulator that had time on the
\* clock or points on the trail.
C1_Witness ==
    /\ last.cmd = "lat_drag" /\ last.dirty /\ ~paused
    /\ latitude = -90 * LatUnit
    /\ time = 0 /\ trail = <<>>

\* C2: in every reachable state rotation_angle equals
\* omega_e * sin(latitude) * time * speed_factor for the current time, latitude
\* and speed_factor.
C2_RotationAngleConsistent ==
    rotation_angle = PrecessionAngle(time, latitude, speed_factor)

\* C3: a toggle of pause (SPACE, the pause button) and a drag of the speed
\* slider each leave time and the trail as they were.
C3_PauseAndSpeedKeepTime ==
    [][ last'.cmd \in PauseCmds \cup {"speed_drag"}
        => (time' = time /\ trail' = trail) ]_vars

\* A speed drag has just changed the speed with time on the clock and a point
\* on the trail, and both are still there.
C3_Witness ==
    /\ last.cmd = "speed_drag" /\ last.dirty
    /\ speed_factor = 100
    /\ time > 0 /\ trail # <<>>

\* C4: time is never negative; every update() taken while not paused adds
\* exactly dt > 0 to it; the only steps that decrease it are the commands that
\* call reset(), and they leave it 0.
C4_TimeMonotone ==
    /\ time >= 0
    /\ [][ /\ time' >= 0
           /\ (last'.cmd = "update" /\ ~paused) => (time' = time + dt /\ time' > time)
           /\ (time' < time) => (time' = 0 /\ last'.cmd \in ResetCmds) ]_vars

\* The second tick of a running simulator has just been taken.
C4_Witness ==
    /\ last.cmd = "update" /\ ~paused
    /\ time = 2 * dt

\* The bob position draw_pendulum stores for the tick that ends at time t, in
\* the oscillating mode, at the current latitude and speed.
BobAt(t) ==
    LET inertial == calculate_inertial_position(t, amplitude, FALSE)
        earth == rotate_to_earth_frame(inertial[1], inertial[2], t, latitude, speed_factor)
    IN  <<center_x + earth[1], center_y + earth[2]>>

\* The number of ticks since the last reset whose position has been drawn.
DrawnTicks == (time \div dt) - (IF xy # None THEN 1 ELSE 0)

\* C5: the trail never holds more than 400 positions; a render pass appends the
\* new bob position at the end, and when the trail already holds 400 exactly
\* the oldest is evicted while the other 399 keep their order; so the trail is
\* the most recent (up to 400) bob positions since the last clear, oldest first.
C5_TrailFifo ==
    /\ [](/\ Len(trail) <= max_trail_points
          /\ ~fixed_mode =>
               /\ Len(trail) = Min2(DrawnTicks, max_trail_points)
               /\ \A i \in {1, Len(trail)} \cap (1..Len(trail)) :
                      trail[i] = BobAt((DrawnTicks - Len(trail) + i) * dt))
    /\ [][ /\ (last'.cmd = "draw" /\ xy # None /\ ~fixed_mode) =>
                LET bob == <<center_x + xy[1], center_y + xy[2]>> IN
                IF Len(trail) < max_trail_points
                THEN trail' = Append(trail, bob)
                ELSE /\ Len(trail') = max_trail_points
                     /\ \A i \in 1..(max_trail_points - 1) : trail'[i] = trail[i + 1]
                     /\ trail'[max_trail_points] = bob
           /\ (trail' # trail) =>
                \/ trail' = <<>>
                \/ (last'.cmd = "draw" /\ xy # None /\ ~fixed_mode) ]_vars

\* The render pass of tick 401 has just evicted the position of tick 1.
C5_Witness ==
    /\ last.cmd = "draw" /\ ~fixed_mode
    /\ time = (max_trail_points + 1) * dt
    /\ Len(trail) = max_trail_points
    /\ trail[1] = BobAt(2 * dt)
    /\ trail[max_trail_points] = BobAt(time)

\* C6: the trail is empty in every state in which fixed_mode is true: entering
\* the fixed mode clears it and no render pass appends to it in that mode.
C6_NoTrailInFixedMode == fixed_mode => trail = <<>>

\* A render pass has just drawn the bob in the fixed mode.
C6_Witness ==
    /\ fixed_mode /\ ~paused
    /\ last.cmd = "draw" /\ time = 2 * dt
    /\ trail = <<>>

\* C7: the simulator starts running (paused = FALSE); each pause command flips
\* paused, and no other step (reset, latitude, speed, fixed mode, info panel,
\* update, draw) changes it.
C7_PauseToggles ==
    /\ ~paused
    /\ [][ /\ last'.cmd \in PauseCmds => paused' = ~paused
           /\ paused' # paused => last'.cmd \in PauseCmds ]_vars

\* The pause button has just resumed a paused simulator.
C7_Witness ==
    /\ last.cmd = "pause_btn" /\ ~paused
    /\ time > 0 /\ pc = "handle_events"

\* C8: the latitude lies in [-90, 90] in every reachable state, for every mouse
\* x of a latitude drag, however far outside the slider.
C8_LatitudeInRange ==
    /\ -90 * LatUnit <= latitude
    /\ latitude <= 90 * LatUnit

\* A drag MouseOver pixels right of the slider's end has set the latitude.
C8_Witness ==
    /\ last.cmd = "lat_drag" /\ last.arg > 220
    /\ latitude = 90 * LatUnit

\* C9: while the latitude is 0 the rotation angle is 0, at every time and
\* speed, and the position update() returns is the inertial position.
C9_EquatorNoPrecession ==
    latitude = 0 =>
        /\ rotation_angle = 0
        /\ xy # None => xy = calculate_inertial_position(time, amplitude, fixed_mode)

\* Two ticks at the equator at the highest speed, the bob swinging.
C9_Witness ==
    /\ latitude = 0 /\ speed_factor = 10000 /\ ~fixed_mode
    /\ time = 2 * dt /\ xy # None /\ xy[2] # 0
    /\ rotation_angle = 0

\* The squared magnitude of a displayed position.
MagSq(p) == p[1] * p[1] + p[2] * p[2]

\* C10 as claimed: in the fixed mode the displayed position has magnitude
\* exactly amplitude at every time.
C10_MagnitudeExact ==
    (fixed_mode /\ xy # None) => MagSq(xy) = (amplitude * PosUnit) * (amplitude * PosUnit)

\* The rounding the magnitude is allowed, in 1/PosUnit pixel: one part in a
\* thousand, ten times the resolution of the fixed-point sine and cosine.
MagTol == (amplitude * PosUnit) \div 1000

\* C10 as amended: in the fixed mode the inertial position is (amplitude, 0)
\* at every time, the displayed position at time 0 is exactly (amplitude, 0),
\* and at every later time its magnitude is amplitude up to the rounding of the
\* arithmetic.
C10_MagnitudeWithinRounding ==
    fixed_mode =>
        /\ calculate_inertial_position(time, amplitude, fixed_mode) = <<amplitude * PosUnit, 0>>
        /\ rotate_to_earth_frame(amplitude * PosUnit, 0, 0, latitude, speed_factor)
             = <<amplitude * PosUnit, 0, 0>>
        /\ xy # None =>
             /\ MagSq(xy) >= (amplitude * PosUnit - MagTol) * (amplitude * PosUnit - MagTol)
             /\ MagSq(xy) <= (amplitude * PosUnit + MagTol) * (amplitude * PosUnit + MagTol)

\* The fixed bob displayed at the pole, rotated by more than a radian.
C10_Witness ==
    /\ fixed_mode /\ xy # None
    /\ latitude = 90 * LatUnit
    /\ rotation_angle > 1000 * TrigScale

\* C11: the location info is one of four categories and a function of latitude
\* and fixed_mode alone: Fixed exactly when fixed_mode; otherwise Equator
\* exactly when |latitude| < 5, Pole exactly when |latitude| > 85, and
\* Mid-Latitude for every other latitude (5 and 85 included); computing it
\* changes no state of the simulator.
C11_LocationClassification ==
    /\ [](loc_info # None =>
            /\ loc_info.name \in {"FIXED PENDULUM", "EQUATOR", "POLE", "MID-LATITUDE"}
            /\ loc_info.name = "FIXED PENDULUM" <=> fixed_mode
            /\ ~fixed_mode =>
                 /\ loc_info.name = "EQUATOR" <=> Abs(latitude) < 5 * LatUnit
                 /\ loc_info.name = "POLE" <=> Abs(latitude) > 85 * LatUnit
                 /\ loc_info.name = "MID-LATITUDE" <=>
                      (5 * LatUnit <= Abs(latitude) /\ Abs(latitude) <= 85 * LatUnit))
    /\ [][ loc_info' # None =>
             UNCHANGED << running, paused, fixed_mode, latitude, time, speed_factor,
                          rotation_angle, lat_slider_pos, speed_slider_pos,
                          dragging_lat, dragging_speed, visible >> ]_vars

\* The panel has just shown Mid-Latitude for exactly 5 degrees south.
C11_Witness ==
    /\ loc_info # None /\ last.cmd = "draw"
    /\ ~fixed_mode /\ latitude = -5 * LatUnit
    /\ loc_info.name = "MID-LATITUDE"

\* C12: running is cleared only by an exit command (ESC, window close) and
\* never set again; once it is cleared the loop finishes the iteration it is
\* in, starts no other and the process exits; the process exits in no other
\* way, and nothing runs after the exit.
C12_ExitTerminatesLoop ==
    /\ [](pc = "exited" => ~running)
    /\ [][ /\ (running /\ ~running') => last'.cmd \in {"K_ESCAPE", "QUIT"}
           /\ ~running => ~running'
           /\ (pc # "handle_events" /\ pc' = "handle_events") => running
           /\ (pc = "draw" /\ ~running) => pc' = "exited"
           /\ pc # "exited" ]_vars
    /\ (~running ~> pc = "exited")

\* The process has exited after ESC, the iteration in hand having drawn a tick.
C12_Witness ==
    /\ pc = "exited" /\ ~running
    /\ last.cmd = "draw" /\ time > 0

\* C13: a frame tick taken while paused leaves time, rotation_angle, latitude,
\* speed_factor, fixed_mode and the trail unchanged and returns no bob position;
\* the render pass of that frame has no position to draw and leaves the same
\* six unchanged, the trail included.
C13_PausedTickIsIdle ==
    /\ []((pc = "draw" /\ paused) => xy = None)
    /\ [][ /\ (last'.cmd = "update" /\ paused) =>
                /\ xy' = None
                /\ UNCHANGED << time, rotation_angle, latitude, speed_factor,
                                fixed_mode, trail >>
           /\ (last'.cmd = "draw" /\ xy = None) =>
                UNCHANGED << time, rotation_angle, latitude, speed_factor,
                             fixed_mode, trail >> ]_vars

\* A paused frame has been ticked and rendered with the clock run and a trail
\* on screen.
C13_Witness ==
    /\ last.cmd = "draw" /\ paused
    /\ time > 0 /\ rotation_angle # 0 /\ trail # <<>>

\* The rounding of one slider quotient, in 1/SliderUnit pixel.
SliderTol == (220 * SliderUnit) \div TrigScale

\* The slider position of a latitude and of a speed under the linear mappings
\* pos = (value - min) / (max - min) * 220, in exact arithmetic.
LatPos(lat) == (lat + 90 * LatUnit) * ((220 * SliderUnit) \div (180 * LatUnit))
SpeedPos(speed) == (speed - 100) * ((220 * SliderUnit) \div 9900)

SlidersInRange ==
    /\ 0 <= lat_slider_pos /\ lat_slider_pos <= 220 * SliderUnit
    /\ 0 <= speed_slider_pos /\ speed_slider_pos <= 220 * SliderUnit
    /\ 100 <= speed_factor /\ speed_factor <= 10000

\* C14 as stated: in every reachable state both slider positions lie in
\* [0, 220], each agrees exactly with its value under the linear mapping, and
\* speed_factor lies in [100, 10000].
C14_SlidersAgreeExactly ==
    /\ SlidersInRange
    /\ lat_slider_pos = LatPos(latitude)
    /\ speed_slider_pos = SpeedPos(speed_factor)

\* C14: in every reachable state both slider positions lie in [0, 220] and
\* speed_factor in [100, 10000]; each slider position agrees with its value
\* under the linear mapping up to the rounding of one quotient, and exactly
\* once a preset or a drag has written either of the pair.
C14_SlidersAgreeWithinRounding ==
    /\ [](/\ SlidersInRange
          /\ Abs(lat_slider_pos - LatPos(latitude)) <= SliderTol
          /\ Abs(speed_slider_pos - SpeedPos(speed_factor)) <= SliderTol)
    /\ [][ /\ (latitude' # latitude \/ lat_slider_pos' # lat_slider_pos) =>
                lat_slider_pos' = LatPos(latitude')
           /\ (speed_factor' # speed_factor \/ speed_slider_pos' # speed_slider_pos) =>
                speed_slider_pos' = SpeedPos(speed_factor') ]_vars

\* The speed slider has been dragged to its right end while the latitude is
\* still the start-up latitude, whose slider position is the rounded one.
C14_Witness ==
    /\ last.cmd = "speed_drag"
    /\ speed_factor = 10000 /\ speed_slider_pos = 220 * SliderUnit
    /\ latitude = 5374226 /\ lat_slider_pos # LatPos(latitude)
====
